---- MODULE Spec2Model ----
(***************************************************************************)
(* Model of the TCI client SDK (src/python/tci/client.py): the session     *)
(* registry with its per-session file stores (TCIClient._session_files),   *)
(* the mock execution evaluator (_run_execution) and the file operations   *)
(* (_upload_file, _download_file).  One action per client operation; each  *)
(* action applies the operator that models the handler's code and records  *)
(* the call and its outcome in `last'.                                     *)
(***************************************************************************)
EXTENDS Integers, Sequences, FiniteSets

VARIABLES
    session_files,  \* TCIClient._session_files: session id -> (remote path -> content)
    issued,         \* history: the ids returned by sessions.create so far
    closed,         \* history: the created sessions for which sessions.close has returned
    written,        \* history: <<id, path>> -> content of the latest upload that
                    \* returned true, forgotten when close(id) returns
    last,           \* the call that has just returned, its arguments and its
                    \* outcome; Idle once the caller has taken the result
    calls,          \* with concurrent callers: each thread's call in progress,
                    \* its position in the handler and its outcome
    unlinked,       \* with concurrent callers: the dicts deleted from
                    \* _session_files that a thread still holds, by session id
    objects,        \* with contents as objects: the bytes objects of the
                    \* interpreter, object id -> byte string
    kept            \* with contents as objects: the File a caller has kept from
                    \* a download, and what the store held when it was returned

vars == <<session_files, issued, closed, written, last, calls, unlinked,
          objects, kept>>

----------------------------------------------------------------------------
(* Bounds and input domains *)

\* Number of sessions.create calls explored.
MaxSessions == 2

\* Longest `tests' list passed to executions.run.
MaxTests == 2

\* Number of threads that call one client concurrently.
MaxThreads == 2

Threads == 1..MaxThreads

\* The values uuid.uuid4() can return, as numbers 1..MaxSessions.
UUIDs == 1..MaxSessions

\* Session ids a caller makes up: strings that no uuid4() call returns.
ForeignIds == {0}

\* A caller passes an id it got from create, or one it made up.
CallerIds == issued \cup ForeignIds

AllIds == UUIDs \cup ForeignIds

Languages == {"python", "javascript"}

Paths == {"test.txt", "nonexistent.txt"}

\* File contents are byte strings: sequences of byte values (b"" and b"Hi").
Contents == {<<>>, <<72, 105>>}

Codes == {"result = 4", "result = 1 + 1"}

\* A Python str that the code inspects is a sequence of characters.
CondEq4 == <<"r", "e", "s", "u", "l", "t", " ", "=", "=", " ", "4">>

CondEq5 == <<"r", "e", "s", "u", "l", "t", " ", "=", "=", " ", "5">>

CondWrapped == <<"(">> \o CondEq4 \o <<"2", ")">>

\* TestSpec dicts; the last one has no "condition" key.
TestSpecs ==
    { [name |-> "Check result", condition |-> CondEq4, reward |-> 1],
      [name |-> "Check result", condition |-> CondEq5, reward |-> 2],
      [name |-> "wrapped", condition |-> CondWrapped, reward |-> 2],
      [name |-> "bare", reward |-> 1] }

TestLists == UNION { [1..n -> TestSpecs] : n \in 0..MaxTests }

----------------------------------------------------------------------------
(* Python values *)

EmptyDict == <<>>

\* d[k] = v
DictSet(d, k, v) == [x \in (DOMAIN d) \cup {k} |-> IF x = k THEN v ELSE d[x]]

\* del d[k]
DictDel(d, k) == [x \in (DOMAIN d) \ {k} |-> d[x]]

\* needle in hay, for str
StrContains(needle, hay) ==
    \E i \in 1..(Len(hay) - Len(needle) + 1) :
        SubSeq(hay, i, i + Len(needle) - 1) = needle

\* The outcome of a call: the exception raised ("" when none) and the value
\* returned, with the store the call leaves behind.
Returns(files, value) == [files |-> files, err |-> "", ret |-> <<value>>]

Raises(files, exc) == [files |-> files, err |-> exc, ret |-> <<>>]

\* The spec's error taxonomy, as the exceptions the code raises.
SessionNotFound == "ValueError: Session not found."

FileNotFound == "FileNotFoundError"

----------------------------------------------------------------------------
(* The handlers of TCIClient *)

\* Faulty variant: an id generator that can hand out an earlier value again.
uuid4_repeating(earlier) == UUIDs

\* uuid.uuid4(): a random 128-bit value; it repeats no earlier value.
uuid4(earlier) == UUIDs \ earlier

_create_session(files, session_id, language) ==
    Returns(DictSet(files, session_id, EmptyDict),
            [id |-> session_id, language |-> language])

\* Faulty variant: `del' without the membership test raises on an unknown id.
_close_session_strict(files, session_id) ==
    IF session_id \in DOMAIN files
    THEN Returns(DictDel(files, session_id), TRUE)
    ELSE Raises(files, "KeyError")

\* Faulty variant: the session is reported closed but its entry is kept.
_close_session_keep(files, session_id) == Returns(files, TRUE)

_close_session(files, session_id) ==
    IF session_id \in DOMAIN files
    THEN Returns(DictDel(files, session_id), TRUE)
    ELSE Returns(files, TRUE)

\* Faulty variant: the declared reward is granted whether or not the test passed.
EvaluateTest_always_reward(test) ==
    LET condition == IF "condition" \in DOMAIN test THEN test.condition ELSE <<>>
        is_passed == StrContains(CondEq4, condition)
    IN  [name |-> test.name, passed |-> is_passed, reward |-> test.reward]

\* Faulty variant: `==' in place of `in', a test passes only on the exact text.
EvaluateTest_equals(test) ==
    LET condition == IF "condition" \in DOMAIN test THEN test.condition ELSE <<>>
        is_passed == (condition = CondEq4)
    IN  [name |-> test.name, passed |-> is_passed,
         reward |-> IF is_passed THEN test.reward ELSE 0]

\* One TestResult of the mock evaluation.
EvaluateTest(test) ==
    LET condition == IF "condition" \in DOMAIN test THEN test.condition ELSE <<>>
        is_passed == StrContains(CondEq4, condition)
    IN  [name |-> test.name, passed |-> is_passed,
         reward |-> IF is_passed THEN test.reward ELSE 0]

\* The list `seq' without the elements whose name occurred earlier in it.
RECURSIVE FirstByName(_)
FirstByName(seq) ==
    IF seq = <<>> THEN <<>>
    ELSE LET front == SubSeq(seq, 1, Len(seq) - 1)
             x == seq[Len(seq)]
         IN  IF \E i \in 1..Len(front) : front[i].name = x.name
             THEN FirstByName(front)
             ELSE Append(FirstByName(front), x)

\* Faulty variant: results collected per test name, so a repeated name yields
\* one result.
_run_execution_by_name(files, session_id, code, tests_none, tests) ==
    LET truthy == ~tests_none /\ Len(tests) > 0
        firsts == FirstByName(tests)
        test_results_mock ==
            IF truthy THEN [i \in 1..Len(firsts) |-> EvaluateTest(firsts[i])]
            ELSE <<>>
    IN  Returns(files, [stdout |-> "The sum is 4", result |-> 4,
                        tests |-> test_results_mock])

\* Faulty variant: the run makes sure the session has a store entry.
_run_execution_registering(files, session_id, code, tests_none, tests) ==
    LET truthy == ~tests_none /\ Len(tests) > 0
        test_results_mock ==
            IF truthy THEN [i \in 1..Len(tests) |-> EvaluateTest(tests[i])]
            ELSE <<>>
    IN  Returns(IF session_id \in DOMAIN files THEN files
                ELSE DictSet(files, session_id, EmptyDict),
                [stdout |-> "The sum is 4", result |-> 4,
                 tests |-> test_results_mock])

\* Faulty variant: the loop runs without the `if tests:' guard, and None is
\* not iterable.
_run_execution_iterate_none(files, session_id, code, tests_none, tests) ==
    IF tests_none THEN Raises(files, "TypeError")
    ELSE Returns(files, [stdout |-> "The sum is 4", result |-> 4,
                         tests |-> [i \in 1..Len(tests) |-> EvaluateTest(tests[i])]])

\* Faulty variant: the result counts the files the session holds.
_run_execution_counting(files, session_id, code, tests_none, tests) ==
    LET truthy == ~tests_none /\ Len(tests) > 0
        test_results_mock ==
            IF truthy THEN [i \in 1..Len(tests) |-> EvaluateTest(tests[i])]
            ELSE <<>>
        held == IF session_id \in DOMAIN files
                THEN Cardinality(DOMAIN files[session_id]) ELSE 0
    IN  Returns(files, [stdout |-> "The sum is 4", result |-> 4 + held,
                        tests |-> test_results_mock])

\* Faulty variant: the run checks that the session is live first.
_run_execution_validating(files, session_id, code, tests_none, tests) ==
    LET truthy == ~tests_none /\ Len(tests) > 0
        test_results_mock ==
            IF truthy THEN [i \in 1..Len(tests) |-> EvaluateTest(tests[i])]
            ELSE <<>>
    IN  IF session_id \notin DOMAIN files
        THEN Raises(files, "ValueError: Session not found.")
        ELSE Returns(files, [stdout |-> "The sum is 4", result |-> 4,
                             tests |-> test_results_mock])

\* tests is None when tests_none, else the list `tests'.
_run_execution(files, session_id, code, tests_none, tests) ==
    LET truthy == ~tests_none /\ Len(tests) > 0
        test_results_mock ==
            IF truthy THEN [i \in 1..Len(tests) |-> EvaluateTest(tests[i])]
            ELSE <<>>
    IN  Returns(files, [stdout |-> "The sum is 4", result |-> 4,
                        tests |-> test_results_mock])

\* Faulty variant: `if content:' skips the write of an empty byte string.
_upload_file_skip_empty(files, session_id, remote_path, content) ==
    IF session_id \notin DOMAIN files
    THEN Raises(files, "ValueError: Session not found.")
    ELSE IF content = <<>> THEN Returns(files, TRUE)
    ELSE Returns(DictSet(files, session_id,
                         DictSet(files[session_id], remote_path, content)),
                 TRUE)

\* Faulty variant: setdefault keeps the content already stored at the path.
_upload_file_keep_first(files, session_id, remote_path, content) ==
    IF session_id \notin DOMAIN files
    THEN Raises(files, "ValueError: Session not found.")
    ELSE IF remote_path \in DOMAIN files[session_id] THEN Returns(files, TRUE)
    ELSE Returns(DictSet(files, session_id,
                         DictSet(files[session_id], remote_path, content)),
                 TRUE)

\* Faulty variant: one dict shared by all sessions, so a write shows in each.
_upload_file_shared(files, session_id, remote_path, content) ==
    IF session_id \notin DOMAIN files
    THEN Raises(files, "ValueError: Session not found.")
    ELSE Returns([s \in DOMAIN files |-> DictSet(files[s], remote_path, content)],
                 TRUE)

\* Faulty variant: the new bytes are copied into the buffer already stored at
\* the path (buf[:] = content), so every holder of that buffer sees them.
_upload_file_objects_in_place(objs, files, session_id, remote_path, content) ==
    IF session_id \in DOMAIN files /\ remote_path \in DOMAIN files[session_id]
    THEN [objs EXCEPT ![files[session_id][remote_path]] = objs[content]]
    ELSE objs

\* What _upload_file does to the bytes objects: the item assignment of line 69
\* binds the slot to the object `content'; it writes to no object, and bytes
\* have no operation that does.
_upload_file_objects(objs, files, session_id, remote_path, content) == objs

_upload_file(files, session_id, remote_path, content) ==
    IF session_id \notin DOMAIN files
    THEN Raises(files, "ValueError: Session not found.")
    ELSE Returns(DictSet(files, session_id,
                         DictSet(files[session_id], remote_path, content)),
                 TRUE)

\* Faulty variant: dict.get(remote_path, b"") answers a missing path with an
\* empty file.
_download_file_default(files, session_id, remote_path) ==
    IF session_id \notin DOMAIN files
    THEN Raises(files, "FileNotFoundError")
    ELSE IF remote_path \notin DOMAIN files[session_id]
    THEN Returns(files, [name |-> remote_path, content |-> <<>>])
    ELSE Returns(files, [name |-> remote_path,
                         content |-> files[session_id][remote_path]])

_download_file(files, session_id, remote_path) ==
    IF session_id \notin DOMAIN files \/ remote_path \notin DOMAIN files[session_id]
    THEN Raises(files, "FileNotFoundError")
    ELSE Returns(files, [name |-> remote_path,
                         content |-> files[session_id][remote_path]])

----------------------------------------------------------------------------
(* The client as a state machine *)

\* The record of a call.  wasLive / wasClosed say whether the id was live, or
\* had been closed, when the call was made; old holds the content the latest
\* upload had put at (id, path) before the call, if any.
Call(op, sid, args, out) ==
    [op |-> op, sid |-> sid, args |-> args, err |-> out.err, ret |-> out.ret,
     wasLive |-> sid \in issued \ closed,
     wasClosed |-> sid \in closed,
     old |-> IF "path" \in DOMAIN args /\ <<sid, args.path>> \in DOMAIN written
             THEN <<written[<<sid, args.path>>]>> ELSE <<>>]

\* No call is in progress: calls are synchronous, one at a time.
Idle == [op |-> "idle", sid |-> 0, args |-> EmptyDict, err |-> "",
         ret |-> <<>>, wasLive |-> FALSE, wasClosed |-> FALSE, old |-> <<>>]

\* A thread that is in no call.
Ready == [pc |-> "ready", op |-> "", sid |-> 0, path |-> "", content |-> <<>>,
          err |-> "", ret |-> <<>>, stored |-> FALSE]

\* The bytes objects that callers pass to upload, by object id: b"" and b"Hi".
ByteObjects == << <<>>, <<72, 105>> >>

\* The caller has kept no File.
NoFile == [has |-> FALSE, sid |-> 0, path |-> "",
           file |-> [name |-> "", content |-> 0], stored |-> <<>>,
           overwritten |-> FALSE]

\* TCIClient.__init__
Init ==
    /\ session_files = EmptyDict
    /\ issued = {}
    /\ closed = {}
    /\ written = EmptyDict
    /\ last = Idle
    /\ calls = [t \in Threads |-> Ready]
    /\ unlinked = EmptyDict
    /\ objects = ByteObjects
    /\ kept = NoFile

\* sessions.create(language)
Create ==
    \E language \in Languages, session_id \in uuid4(issued) :
        LET out == _create_session(session_files, session_id, language)
        IN  /\ last = Idle
            /\ Cardinality(issued) < MaxSessions
            /\ session_files' = out.files
            /\ issued' = issued \cup {session_id}
            /\ last' = Call("create", session_id, [language |-> language], out)
            /\ UNCHANGED <<closed, written, calls, unlinked, objects, kept>>

\* sessions.close(session_id)
Close ==
    \E session_id \in CallerIds :
        LET out == _close_session(session_files, session_id)
        IN  /\ last = Idle
            /\ session_files' = out.files
            /\ closed' = IF out.err = "" THEN closed \cup ({session_id} \cap issued)
                         ELSE closed
            /\ written' = IF out.err = ""
                          THEN [k \in {q \in DOMAIN written : q[1] # session_id}
                                    |-> written[k]]
                          ELSE written
            /\ last' = Call("close", session_id, EmptyDict, out)
            /\ UNCHANGED <<issued, calls, unlinked, objects, kept>>

\* executions.run(session_id, code, tests)
Run ==
    \E session_id \in CallerIds, code \in Codes,
       tests_none \in BOOLEAN, tests \in TestLists :
        LET out == _run_execution(session_files, session_id, code, tests_none, tests)
        IN  /\ last = Idle
            /\ tests_none => tests = <<>>
            /\ session_files' = out.files
            /\ last' = Call("run", session_id,
                            [code |-> code, tests_none |-> tests_none,
                             tests |-> tests], out)
            /\ UNCHANGED <<issued, closed, written, calls, unlinked, objects, kept>>

\* files.upload(session_id, remote_path, content)
Upload ==
    \E session_id \in CallerIds, remote_path \in Paths, content \in Contents :
        LET out == _upload_file(session_files, session_id, remote_path, content)
        IN  /\ last = Idle
            /\ session_files' = out.files
            /\ written' = IF out.err = "" /\ out.ret = <<TRUE>>
                          THEN DictSet(written, <<session_id, remote_path>>, content)
                          ELSE written
            /\ last' = Call("upload", session_id,
                            [path |-> remote_path, content |-> content], out)
            /\ UNCHANGED <<issued, closed, calls, unlinked, objects, kept>>

\* files.download(session_id, remote_path)
Download ==
    \E session_id \in CallerIds, remote_path \in Paths :
        LET out == _download_file(session_files, session_id, remote_path)
        IN  /\ last = Idle
            /\ session_files' = out.files
            /\ last' = Call("download", session_id, [path |-> remote_path], out)
            /\ UNCHANGED <<issued, closed, written, calls, unlinked, objects, kept>>

\* The call has returned to its caller, who may make the next one.
Return ==
    /\ last # Idle
    /\ last' = Idle
    /\ UNCHANGED <<session_files, issued, closed, written, calls, unlinked,
                   objects, kept>>

Next == Create \/ Close \/ Run \/ Upload \/ Download \/ Return

Spec == Init /\ [][Next]_vars

\* The sessions that were created and not closed since.
Live == issued \ closed

----------------------------------------------------------------------------
(* Contents as objects.  A Python value is a reference to an object: the   *)
(* store's slot (line 69) and the File's content field (line 76) hold the  *)
(* bytes object itself, not a copy of it.  In this specification a content *)
(* is an object id and `objects' gives each object's bytes; a caller keeps *)
(* the File a download returned while other calls go on.                   *)

\* files.upload(session_id, remote_path, content), content a bytes object
UploadObject ==
    \E session_id \in CallerIds, remote_path \in Paths,
       content \in DOMAIN ByteObjects :
        LET out == _upload_file(session_files, session_id, remote_path, content)
        IN  /\ last = Idle
            /\ session_files' = out.files
            /\ objects' = _upload_file_objects(objects, session_files, session_id,
                                               remote_path, content)
            /\ written' = IF out.err = "" /\ out.ret = <<TRUE>>
                          THEN DictSet(written, <<session_id, remote_path>>, content)
                          ELSE written
            /\ kept' = IF /\ kept.has
                          /\ out.err = ""
                          /\ session_id = kept.sid
                          /\ remote_path = kept.path
                          /\ content # kept.file.content
                       THEN [kept EXCEPT !.overwritten = TRUE]
                       ELSE kept
            /\ last' = Call("upload", session_id,
                            [path |-> remote_path, content |-> content], out)
            /\ UNCHANGED <<issued, closed, calls, unlinked>>

\* f = files.download(session_id, remote_path): the caller keeps the File the
\* call returned.  `stored' is the bytes of the object the store holds at
\* (session_id, remote_path), read from the store and not from the File.
KeepFile ==
    /\ last.op = "download"
    /\ last.err = ""
    /\ kept' = [has |-> TRUE, sid |-> last.sid, path |-> last.args.path,
                file |-> last.ret[1],
                stored |-> objects[session_files[last.sid][last.args.path]],
                overwritten |-> FALSE]
    /\ last' = Idle
    /\ UNCHANGED <<session_files, issued, closed, written, calls, unlinked,
                   objects>>

NextSnapshot ==
    Create \/ Close \/ UploadObject \/ Download \/ KeepFile \/ Return

SpecSnapshot == Init /\ [][NextSnapshot]_vars

----------------------------------------------------------------------------
(* Several threads calling one client.  The handlers take no lock, so a   *)
(* thread can be switched between any two accesses of a handler to the    *)
(* shared dicts: between the membership test and the lookup of line 73,   *)
(* between the lookup of a session's dict and the access to that dict in  *)
(* lines 69, 73 and 76, and between two lines.  Each action below is one  *)
(* such access, made by thread t.  A dict is an object: a thread that has *)
(* looked a session's dict up holds that dict, also after a close has     *)
(* deleted it from _session_files.                                        *)

\* The history variables of the sequential specification that a step of a
\* thread leaves alone.
Unobserved == <<closed, written, last, objects, kept>>

Starts(op, sid, path, content, pc) ==
    [Ready EXCEPT !.pc = pc, !.op = op, !.sid = sid, !.path = path,
                  !.content = content]

Finishes(call, err, ret) == [call EXCEPT !.pc = "done", !.err = err, !.ret = ret]

\* The positions at which a thread holds the dict of its session: after the
\* lookup self._session_files[session_id], before the access to the dict.
HoldingPcs == {"upload_store", "download_path_test", "download_index"}

\* The dict that was created for session sid: in _session_files, or deleted
\* from it and held by a thread.
DictOf(sid) == IF sid \in DOMAIN session_files THEN session_files[sid]
               ELSE unlinked[sid]

\* Reference counting: of the dicts in `dicts', those that a thread of `cs'
\* holds; the others are freed.
StillHeld(dicts, cs) ==
    [sid \in {x \in DOMAIN dicts :
                 \E t \in Threads : cs[t].pc \in HoldingPcs /\ cs[t].sid = x}
        |-> dicts[sid]]

\* Thread t moves to `call'; the registry and the deleted dicts become
\* `files' and `dicts'.
Step(t, call, files, dicts) ==
    LET cs == [calls EXCEPT ![t] = call]
    IN  /\ calls' = cs
        /\ session_files' = files
        /\ unlinked' = StillHeld(dicts, cs)

\* sessions.create: lines 34-36.
TCreate(t) ==
    \E language \in Languages, session_id \in uuid4(issued) :
        LET out == _create_session(session_files, session_id, language)
        IN  /\ calls[t].pc = "ready"
            /\ Cardinality(issued) < MaxSessions
            /\ issued' = issued \cup {session_id}
            /\ Step(t, Finishes(Starts("create", session_id, "", <<>>, "ready"),
                                out.err, out.ret),
                    out.files, unlinked)
            /\ UNCHANGED Unobserved

\* sessions.close, line 41: the membership test.
TCloseTest(t) ==
    \E session_id \in CallerIds :
        /\ calls[t].pc = "ready"
        /\ Step(t, IF session_id \in DOMAIN session_files
                   THEN Starts("close", session_id, "", <<>>, "close_del")
                   ELSE Finishes(Starts("close", session_id, "", <<>>, "ready"),
                                 "", <<TRUE>>),
                session_files, unlinked)
        /\ UNCHANGED <<issued, Unobserved>>

\* sessions.close, lines 42-44: del raises KeyError when the key is gone.
TCloseDel(t) ==
    /\ calls[t].pc = "close_del"
    /\ IF calls[t].sid \in DOMAIN session_files
       THEN Step(t, Finishes(calls[t], "", <<TRUE>>),
                 DictDel(session_files, calls[t].sid),
                 DictSet(unlinked, calls[t].sid, session_files[calls[t].sid]))
       ELSE Step(t, Finishes(calls[t], "KeyError", <<>>), session_files, unlinked)
    /\ UNCHANGED <<issued, Unobserved>>

\* files.upload, lines 66-68: the liveness check.
TUploadCheck(t) ==
    \E session_id \in CallerIds, remote_path \in Paths, content \in Contents :
        /\ calls[t].pc = "ready"
        /\ Step(t, IF session_id \notin DOMAIN session_files
                   THEN Finishes(Starts("upload", session_id, remote_path, content,
                                        "ready"),
                                 "ValueError: Session not found.", <<>>)
                   ELSE Starts("upload", session_id, remote_path, content,
                               "upload_load"),
                session_files, unlinked)
        /\ UNCHANGED <<issued, Unobserved>>

\* files.upload, line 69: self._session_files[session_id], the session's dict.
TUploadLoad(t) ==
    /\ calls[t].pc = "upload_load"
    /\ Step(t, IF calls[t].sid \in DOMAIN session_files
               THEN [calls[t] EXCEPT !.pc = "upload_store"]
               ELSE Finishes(calls[t], "KeyError", <<>>),
            session_files, unlinked)
    /\ UNCHANGED <<issued, Unobserved>>

\* files.upload, lines 69-70: the store into the dict looked up.  When the
\* session was closed since the lookup, that dict is no longer in
\* _session_files and the content goes to a dict that no session owns.
TUploadStore(t) ==
    /\ calls[t].pc = "upload_store"
    /\ LET sid == calls[t].sid
           dict == DictSet(DictOf(sid), calls[t].path, calls[t].content)
       IN  IF sid \in DOMAIN session_files
           THEN Step(t, [Finishes(calls[t], "", <<TRUE>>) EXCEPT !.stored = TRUE],
                     DictSet(session_files, sid, dict), unlinked)
           ELSE Step(t, Finishes(calls[t], "", <<TRUE>>),
                     session_files, DictSet(unlinked, sid, dict))
    /\ UNCHANGED <<issued, Unobserved>>

\* files.download, line 73: session_id not in self._session_files.
TDownloadCheck(t) ==
    \E session_id \in CallerIds, remote_path \in Paths :
        /\ calls[t].pc = "ready"
        /\ Step(t, IF session_id \notin DOMAIN session_files
                   THEN Finishes(Starts("download", session_id, remote_path, <<>>,
                                        "ready"),
                                 "FileNotFoundError", <<>>)
                   ELSE Starts("download", session_id, remote_path, <<>>,
                               "download_check_load"),
                session_files, unlinked)
        /\ UNCHANGED <<issued, Unobserved>>

\* files.download, line 73: self._session_files[session_id], for the path test.
TDownloadCheckLoad(t) ==
    /\ calls[t].pc = "download_check_load"
    /\ Step(t, IF calls[t].sid \in DOMAIN session_files
               THEN [calls[t] EXCEPT !.pc = "download_path_test"]
               ELSE Finishes(calls[t], "KeyError", <<>>),
            session_files, unlinked)
    /\ UNCHANGED <<issued, Unobserved>>

\* files.download, lines 73-75: remote_path not in the dict looked up.
TDownloadPathTest(t) ==
    /\ calls[t].pc = "download_path_test"
    /\ Step(t, IF calls[t].path \notin DOMAIN DictOf(calls[t].sid)
               THEN Finishes(calls[t], "FileNotFoundError", <<>>)
               ELSE [calls[t] EXCEPT !.pc = "download_load"],
            session_files, unlinked)
    /\ UNCHANGED <<issued, Unobserved>>

\* files.download, line 76: self._session_files[session_id] again.
TDownloadLoad(t) ==
    /\ calls[t].pc = "download_load"
    /\ Step(t, IF calls[t].sid \in DOMAIN session_files
               THEN [calls[t] EXCEPT !.pc = "download_index"]
               ELSE Finishes(calls[t], "KeyError", <<>>),
            session_files, unlinked)
    /\ UNCHANGED <<issued, Unobserved>>

\* files.download, line 76: [remote_path] on the dict looked up, and the File.
TDownloadRead(t) ==
    /\ calls[t].pc = "download_index"
    /\ Step(t, IF calls[t].path \in DOMAIN DictOf(calls[t].sid)
               THEN Finishes(calls[t], "",
                             <<[name |-> calls[t].path,
                                content |-> DictOf(calls[t].sid)[calls[t].path]]>>)
               ELSE Finishes(calls[t], "KeyError", <<>>),
            session_files, unlinked)
    /\ UNCHANGED <<issued, Unobserved>>

\* The call of thread t has returned; the thread may make its next call.
TReturn(t) ==
    /\ calls[t].pc = "done"
    /\ Step(t, Ready, session_files, unlinked)
    /\ UNCHANGED <<issued, Unobserved>>

NextConcurrent ==
    \E t \in Threads :
        \/ TCreate(t)
        \/ TCloseTest(t)
        \/ TCloseDel(t)
        \/ TUploadCheck(t)
        \/ TUploadLoad(t)
        \/ TUploadStore(t)
        \/ TDownloadCheck(t)
        \/ TDownloadCheckLoad(t)
        \/ TDownloadPathTest(t)
        \/ TDownloadLoad(t)
        \/ TDownloadRead(t)
        \/ TReturn(t)

SpecConcurrent == Init /\ [][NextConcurrent]_vars

----------------------------------------------------------------------------
(* Properties *)

\* The value a call returned and the exception it raised, without the store.
Outcome(out) == <<out.err, out.ret>>

\* C1: after sessions.close(s) has returned, every later files.upload and
\* files.download on s fails with SessionNotFound.  (_download_file raises
\* FileNotFoundError for a closed session, so this does not hold.)
C1_ClosedThenSessionNotFound ==
    (last.op \in {"upload", "download"} /\ last.wasClosed)
        => last.err = SessionNotFound

\* C2: an upload to a live session returns true, and a download of (s, p)
\* made after an upload of c to (s, p), with no later upload to (s, p) and
\* no close of s, returns the File named p with content c, whatever was
\* done to other sessions and other paths in between.
C2_RoundTrip ==
    /\ (last.op = "upload" /\ last.wasLive)
           => (last.err = "" /\ last.ret = <<TRUE>>)
    /\ (last.op = "download" /\ last.old # <<>>)
           => /\ last.err = ""
              /\ last.ret = <<[name |-> last.args.path, content |-> last.old[1]]>>

\* A download that follows an upload to the same (s, p) while another session
\* holds different content.
C2_Witness ==
    /\ last.op = "download"
    /\ last.old # <<>>
    /\ \E k \in DOMAIN written : k[1] # last.sid /\ written[k] # last.old[1]

\* C3: an upload to a path of a live session that an earlier upload has
\* written returns true as well, and a download of that path then yields the
\* content of this second upload only.
C3_LastWriteWins ==
    (last.op = "upload" /\ last.wasLive /\ last.old # <<>>)
        => /\ last.err = ""
           /\ last.ret = <<TRUE>>
           /\ Outcome(_download_file(session_files, last.sid, last.args.path))
                  = <<"", <<[name |-> last.args.path,
                             content |-> last.args.content]>> >>

\* An upload that replaces different content.
C3_Witness ==
    /\ last.op = "upload"
    /\ last.old # <<>>
    /\ last.old[1] # last.args.content

\* C4: a download from a live session of a path never uploaded to it fails
\* with FileNotFound and changes no session's store.
C4_DownloadMissing ==
    [][(last'.op = "download" /\ last'.wasLive /\ last'.old = <<>>)
           => (last'.err = FileNotFound /\ session_files' = session_files)]_vars

\* Such a download, of a path that another session holds.
C4_Witness ==
    /\ last.op = "download"
    /\ last.wasLive
    /\ last.old = <<>>
    /\ \E k \in DOMAIN written : k[1] # last.sid /\ k[2] = last.args.path

\* C5: sessions.create returns a non-null id that was returned by no earlier
\* create, closed sessions included, and the new session's store is empty.
\* (wasLive and wasClosed are both false exactly for an id never issued.)
C5_FreshIdentity ==
    last.op = "create"
        => /\ last.err = ""
           /\ last.ret[1].id \in UUIDs
           /\ last.ret[1].id = last.sid
           /\ ~last.wasLive /\ ~last.wasClosed
           /\ session_files[last.ret[1].id] = EmptyDict

\* A create made after a session was closed.
C5_Witness ==
    /\ last.op = "create"
    /\ closed # {}

\* C6: the tests of the Execution that executions.run returns are as many as
\* the TestSpecs passed, and the i-th carries the name of the i-th TestSpec.
C6_OrderPreserved ==
    (last.op = "run" /\ ~last.args.tests_none)
        => /\ last.err = ""
           /\ Len(last.ret[1].tests) = Len(last.args.tests)
           /\ \A i \in 1..Len(last.args.tests) :
                  last.ret[1].tests[i].name = last.args.tests[i].name

\* A run of two different TestSpecs of one name.
C6_Witness ==
    /\ last.op = "run"
    /\ Len(last.args.tests) >= 2
    /\ last.args.tests[1].name = last.args.tests[2].name
    /\ last.args.tests[1] # last.args.tests[2]

\* C7: each TestResult's reward is its TestSpec's reward when it passed and 0
\* when it failed.
C7_RewardOnlyOnPass ==
    last.op = "run"
        => \A i \in 1..Len(last.ret[1].tests) :
               last.ret[1].tests[i].reward =
                   IF last.ret[1].tests[i].passed
                   THEN last.args.tests[i].reward ELSE 0

\* A run with a failed test that declared a reward and a passed one.
C7_Witness ==
    /\ last.op = "run"
    /\ \E i, j \in 1..Len(last.ret[1].tests) :
           /\ ~last.ret[1].tests[i].passed /\ last.args.tests[i].reward > 0
           /\ last.ret[1].tests[j].passed /\ last.args.tests[j].reward > 0

\* C8: an upload to A, a close of A or the create of A leaves the outcome of
\* download(B, p) as it was for every other session B and every path p, and
\* a download returns only content that was uploaded to its own (B, p).
C8_Isolation ==
    /\ [][\A b \in AllIds, p \in Paths :
              (last'.op \in {"create", "upload", "close"} /\ last'.sid # b)
                  => Outcome(_download_file(session_files', b, p))
                         = Outcome(_download_file(session_files, b, p))]_vars
    /\ []((last.op = "download" /\ last.err = "")
              => last.old = <<last.ret[1].content>>)

\* An upload to one session while another live session holds different
\* content at the same path.
C8_Witness ==
    /\ last.op = "upload"
    /\ last.err = ""
    /\ \E b \in Live \ {last.sid} :
           /\ <<b, last.args.path>> \in DOMAIN written
           /\ written[<<b, last.args.path>>] # last.args.content

\* C9: sessions.close returns true for every id, and for an id that is not
\* live (closed before, or never issued) it changes nothing.
C9_TolerantClose ==
    [][last'.op = "close"
           => /\ last'.err = ""
              /\ last'.ret = <<TRUE>>
              /\ ~last'.wasLive => session_files' = session_files]_vars

\* A second close of a session, while another session holds files.
C9_Witness ==
    /\ last.op = "close"
    /\ last.wasClosed
    /\ written # EmptyDict

\* C10: upload and download with an id that create never issued fail with
\* SessionNotFound and leave no store entry for it.  (_download_file raises
\* FileNotFoundError for an unknown session, so this does not hold.)
C10_UnknownThenSessionNotFound ==
    (last.op \in {"upload", "download"} /\ ~last.wasLive /\ ~last.wasClosed)
        => /\ last.err = SessionNotFound
           /\ last.sid \notin DOMAIN session_files

\* C11: with concurrent callers, an upload or download that has returned
\* either completed or failed with SessionNotFound or FileNotFound, never
\* with another error, and an upload that returned true put its content
\* into the store of a session that was live.  (The handlers take no lock:
\* a close between the check and the access makes the access raise
\* KeyError, so this does not hold.)
C11_SerializedPerSession ==
    \A t \in Threads :
        (calls[t].pc = "done" /\ calls[t].op \in {"upload", "download"})
            => /\ calls[t].err \in {"", SessionNotFound, FileNotFound}
               /\ (calls[t].op = "upload" /\ calls[t].err = "") => calls[t].stored

\* C12: executions.run changes neither the set of live sessions nor any
\* session's file store, for any session id, code and tests.
C12_RunNoSideEffect ==
    [][last'.op = "run"
           => /\ session_files' = session_files
              /\ issued' = issued
              /\ closed' = closed]_vars

\* A run on an id with no store entry, while a live session holds files.
C12_Witness ==
    /\ last.op = "run"
    /\ ~last.wasLive
    /\ written # EmptyDict

\* C13: a run with tests omitted (None) or empty returns an Execution with
\* no tests, and with stdout and result populated, whatever the code is.
C13_NoTests ==
    (last.op = "run" /\ (last.args.tests_none \/ Len(last.args.tests) = 0))
        => /\ last.err = ""
           /\ last.ret[1].tests = <<>>
           /\ last.ret[1].stdout = "The sum is 4"
           /\ last.ret[1].result = 4

\* A run with tests omitted, of the code the mocked result does not fit.
C13_Witness ==
    /\ last.op = "run"
    /\ last.args.tests_none
    /\ last.args.code = "result = 1 + 1"

\* C14: what a run returns depends on its tests alone: it is what a run with
\* these tests returns on a client just constructed, for any session id and
\* any code; so two runs with the same tests return equal Executions after
\* any history of runs, uploads, creates and closes.
C14_RunDeterministic ==
    last.op = "run"
        => \A sid \in AllIds, code \in Codes :
               <<last.err, last.ret>> =
                   Outcome(_run_execution(EmptyDict, sid, code,
                                          last.args.tests_none, last.args.tests))

\* A run with tests on a live session that holds files, after a close.
C14_Witness ==
    /\ last.op = "run"
    /\ last.wasLive
    /\ closed # {}
    /\ \E p \in Paths : <<last.sid, p>> \in DOMAIN written
    /\ Len(last.args.tests) > 0

\* C15: the ids that own a file store are the ids created and not closed,
\* and the store of each holds exactly the paths uploaded to it since its
\* creation, each with its latest uploaded content.
C15_StoreMatchesHistory ==
    /\ DOMAIN session_files = Live
    /\ \A s \in DOMAIN session_files :
           /\ DOMAIN session_files[s] = {p \in Paths : <<s, p>> \in DOMAIN written}
           /\ \A p \in DOMAIN session_files[s] :
                  session_files[s][p] = written[<<s, p>>]
    /\ last.op = "create" => session_files[last.sid] = EmptyDict

\* A closed session next to a live one that holds every path.
C15_Witness ==
    /\ closed # {}
    /\ \E s \in Live : \A p \in Paths : <<s, p>> \in DOMAIN written

\* C16: executions.run returns an Execution for an id that is closed or was
\* never issued, as it does for a live session; it never fails with
\* SessionNotFound.
C16_RunNoLivenessCheck ==
    last.op = "run"
        => /\ last.err = ""
           /\ Len(last.ret) = 1
           /\ DOMAIN last.ret[1] = {"stdout", "result", "tests"}

\* A run on a closed session.
C16_Witness ==
    /\ last.op = "run"
    /\ last.wasClosed

\* C17: a successful download(s, p) returns the File named p with the bytes
\* stored at (s, p) when it was called, the download changes no store, and the
\* File a caller keeps stays that File, with those bytes, through every later
\* upload (to (s, p) or elsewhere) and every later close (of s or another).
C17_DownloadSnapshot ==
    /\ [][last'.op = "download"
              => /\ session_files' = session_files
                 /\ objects' = objects
                 /\ last'.err = ""
                        => last'.ret = <<[name |-> last'.args.path,
                                          content |-> session_files[last'.sid]
                                                                   [last'.args.path]]>>]_vars
    /\ [](kept.has => /\ kept.file.name = kept.path
                      /\ objects[kept.file.content] = kept.stored)
    /\ [][kept.has /\ last'.op \in {"create", "upload", "close"}
              => /\ kept'.file = kept.file
                 /\ kept'.stored = kept.stored]_vars

\* A caller keeps the File of download(s, p); then (s, p) was overwritten with
\* other bytes, and then s was closed.
C17_Witness ==
    /\ kept.has
    /\ kept.overwritten
    /\ kept.sid \in closed
    /\ kept.sid \notin DOMAIN session_files

\* `text' occurs in `str': str is some prefix, then text, then some suffix.
Occurs(text, str) ==
    \E a, b \in 0..Len(str) :
        /\ a + Len(text) + b = Len(str)
        /\ \A i \in 1..Len(text) : str[a + i] = text[i]

\* C18: a TestSpec passes exactly when it has a condition in which the text
\* "result == 4" occurs, whatever the code and the other tests are; one with
\* the condition "result == 4" passes with its reward, one without a
\* condition fails with reward 0.
C18_PassIffContains ==
    last.op = "run"
        => \A i \in 1..Len(last.args.tests) :
               LET t == last.args.tests[i]
                   r == last.ret[1].tests[i]
               IN  /\ r.passed = ("condition" \in DOMAIN t
                                     /\ Occurs(CondEq4, t.condition))
                   /\ ("condition" \in DOMAIN t /\ t.condition = CondEq4)
                          => (r.passed /\ r.reward = t.reward)
                   /\ "condition" \notin DOMAIN t
                          => (~r.passed /\ r.reward = 0)

\* A run of the code "result = 1 + 1" in which a test whose condition holds
\* more than the text passes, next to one without a condition.
C18_Witness ==
    /\ last.op = "run"
    /\ last.args.code = "result = 1 + 1"
    /\ \E i, j \in 1..Len(last.args.tests) :
           /\ last.args.tests[i].name = "wrapped" /\ last.ret[1].tests[i].passed
           /\ "condition" \notin DOMAIN last.args.tests[j]

====
